---- MODULE Spec2Model ----
(***************************************************************************)
(* Model of goldmark-chart (main.go): the AST transformer that swaps `vis`  *)
(* fenced code blocks for ChartBlock nodes, ParseChartData, BuildChartJS    *)
(* and HTMLRenderer.Render.                                                 *)
(*                                                                         *)
(* Text is a sequence of characters.  A character is a one-element TLA+     *)
(* string; the words of the chart dialect (layout, key, value, script, ...) *)
(* are kept as single symbols, which stands for the run of their letters.   *)
(***************************************************************************)
EXTENDS Integers, Sequences, FiniteSets, TLC

(***************************************************************************)
(* Bounds of the model.                                                     *)
(***************************************************************************)
MaxLines == 3
MaxKeyLen == 2
MaxSpaces == 2
MaxStrLen == 1
MaxBlocks == 3
MaxLeaves == 3

\* F applied to the value of x: x is computed once, as a Go local variable
\* is, however often F uses it.
Bind(x, F(_)) == CHOOSE r \in { F(v) : v \in {x} } : TRUE

(***************************************************************************)
(* package strings                                                          *)
(***************************************************************************)
NL == "\n"
SP == " "

IsSpace(c) == c \in {SP, NL, "\t"}

\* s without its leading white space: from its first character that is
\* none.
TrimLeft(s) ==
  IF \A i \in 1..Len(s) : IsSpace(s[i]) THEN <<>>
  ELSE SubSeq(s, CHOOSE i \in 1..Len(s) :
                   ~IsSpace(s[i]) /\ \A j \in 1..(i - 1) : IsSpace(s[j]),
              Len(s))

\* s without its trailing white space: up to its last character that is
\* none.
TrimRight(s) ==
  IF \A i \in 1..Len(s) : IsSpace(s[i]) THEN <<>>
  ELSE SubSeq(s, 1, CHOOSE i \in 1..Len(s) :
                      ~IsSpace(s[i]) /\ \A j \in (i + 1)..Len(s) : IsSpace(s[j]))

TrimSpace(s) == TrimRight(TrimLeft(s))

HasPrefix(s, p) == Len(s) >= Len(p) /\ SubSeq(s, 1, Len(p)) = p

HasSuffix(s, p) == Len(s) >= Len(p) /\ SubSeq(s, Len(s) - Len(p) + 1, Len(s)) = p

TrimPrefix(s, p) == IF HasPrefix(s, p) THEN SubSeq(s, Len(p) + 1, Len(s)) ELSE s

TrimSuffix(s, p) == IF HasSuffix(s, p) THEN SubSeq(s, 1, Len(s) - Len(p)) ELSE s

\* strings.Index for a one-character needle; 0 stands for Go's -1, otherwise
\* the (1-based) position of the first occurrence.
Index(s, c) ==
  IF \E i \in 1..Len(s) : s[i] = c
  THEN CHOOSE i \in 1..Len(s) : s[i] = c /\ \A j \in 1..(i - 1) : s[j] # c
  ELSE 0

RECURSIVE Split(_, _)
Split(s, sep) ==
  Bind(Index(s, sep), LAMBDA i :
       IF i = 0 THEN <<s>>
       ELSE <<SubSeq(s, 1, i - 1)>>
              \o Bind(SubSeq(s, i + 1, Len(s)), LAMBDA rest : Split(rest, sep)))

RECURSIVE Join(_, _)
Join(ls, sep) ==
  IF ls = <<>> THEN <<>>
  ELSE IF Len(ls) = 1 THEN ls[1]
  ELSE ls[1] \o <<sep>> \o Join(Tail(ls), sep)

\* The concatenation of the sequences of ss.
RECURSIVE Flatten(_)
Flatten(ss) ==
  IF Len(ss) = 0 THEN <<>>
  ELSE IF Len(ss) = 1 THEN ss[1]
  ELSE Bind(Len(ss) \div 2, LAMBDA h :
            Flatten(SubSeq(ss, 1, h)) \o Flatten(SubSeq(ss, h + 1, Len(ss))))

\* old occurs in s at position k.
OccursAt(s, k, old) ==
  k >= 1 /\ k + Len(old) - 1 <= Len(s) /\ SubSeq(s, k, k + Len(old) - 1) = old

\* strings.ReplaceAll for an old that no two occurrences of which overlap
\* (none of the texts ParseChartData replaces can overlap itself): every
\* occurrence gives new, every other character stays.
ReplaceAll(s, old, new) ==
  Flatten([k \in 1..Len(s) |->
             IF OccursAt(s, k, old) THEN new
             ELSE IF \E j \in (k - Len(old) + 1)..(k - 1) : OccursAt(s, j, old)
                  THEN <<>>
                  ELSE <<s[k]>>])

\* strings.ToLower / bytes.EqualFold's folding, on the symbols of the model
\* that have an upper-case letter.
ToLower(s) ==
  [i \in 1..Len(s) |->
     CASE s[i] = "BAR" -> "bar"
       [] s[i] = "Pie" -> "pie"
       [] s[i] = "V" -> "v"
       [] OTHER -> s[i]]

(***************************************************************************)
(* encoding/json: json.Unmarshal(data, &points) with points []RenderPoint,  *)
(* as called by ParseChartData.  The texts the model builds hold objects    *)
(* whose member values are strings and numbers (no exponent part, no        *)
(* nested composite or literal values).                                     *)
(***************************************************************************)
Digit == {"0", "1", "2", "3", "4", "5", "6", "7", "8", "9"}

QUOTE == "\""
BACKSLASH == "\\"

\* A RenderPoint: Key is an interface{} (nil, a string or a float64, kept as
\* the literal's characters), Value a float64 (kept as the literal's
\* characters; the zero value is the literal 0).
ZeroPoint == [keyKind |-> "nil", key |-> <<>>, value |-> <<"0">>]

\* The first position from i on that holds no white space (Len(s) + 1 when
\* there is none).
SkipWS(s, i) ==
  IF i > Len(s) THEN i
  ELSE CHOOSE j \in i..(Len(s) + 1) :
         /\ j > Len(s) \/ ~IsSpace(s[j])
         /\ \A k \in i..(j - 1) : IsSpace(s[k])

\* The first position from i on that holds no digit.
DigitRunEnd(s, i) ==
  IF i > Len(s) THEN i
  ELSE CHOOSE j \in i..(Len(s) + 1) :
         /\ j > Len(s) \/ s[j] \notin Digit
         /\ \A k \in i..(j - 1) : s[k] \in Digit

\* The position after the JSON number that starts at i, or 0 when no valid
\* number starts there.
NumberEnd(s, i) ==
  LET a == IF i <= Len(s) /\ s[i] = "-" THEN i + 1 ELSE i
      b == DigitRunEnd(s, a)
  IN  IF b = a THEN 0
      ELSE IF s[a] = "0" /\ b > a + 1 THEN 0
      ELSE IF b <= Len(s) /\ s[b] = "."
           THEN LET c == DigitRunEnd(s, b + 1) IN IF c = b + 1 THEN 0 ELSE c
           ELSE b

\* The position of the quote that closes the string opened at i - 1, or 0.
RECURSIVE StringEnd(_, _)
StringEnd(s, i) ==
  IF i > Len(s) THEN 0
  ELSE IF s[i] = QUOTE THEN i
  ELSE IF s[i] \in {NL, "\t"} THEN 0
  ELSE IF s[i] = BACKSLASH
       THEN IF i + 1 <= Len(s) /\ s[i + 1] \in {QUOTE, BACKSLASH, "n"}
            THEN StringEnd(s, i + 2) ELSE 0
  ELSE StringEnd(s, i + 1)

\* A scalar member value at i: [ok, pos (after the value), kind, text].
ScalarAt(s, i) ==
  IF i > Len(s) THEN [ok |-> FALSE, pos |-> i, kind |-> "nil", text |-> <<>>]
  ELSE IF s[i] = QUOTE
       THEN LET e == StringEnd(s, i + 1) IN
            IF e = 0 THEN [ok |-> FALSE, pos |-> i, kind |-> "nil", text |-> <<>>]
            ELSE [ok |-> TRUE, pos |-> e + 1, kind |-> "string",
                  text |-> SubSeq(s, i + 1, e - 1)]
       ELSE LET e == NumberEnd(s, i) IN
            IF e = 0 THEN [ok |-> FALSE, pos |-> i, kind |-> "nil", text |-> <<>>]
            ELSE [ok |-> TRUE, pos |-> e, kind |-> "number",
                  text |-> SubSeq(s, i, e - 1)]

\* Storing the member `name` with scalar value v into the point pt: the
\* fields are Key (tag "key") and Value; other names are ignored, and a
\* string cannot be stored into the float64 Value.
SetMember(pt, name, v) ==
  IF name = <<"key">>
  THEN [ok |-> TRUE, pt |-> [pt EXCEPT !.keyKind = v.kind, !.key = v.text]]
  ELSE IF name = <<"value">>
       THEN IF v.kind = "number"
            THEN [ok |-> TRUE, pt |-> [pt EXCEPT !.value = v.text]]
            ELSE [ok |-> FALSE, pt |-> pt]
       ELSE [ok |-> TRUE, pt |-> pt]

\* The members of an object, from the first member's name at i (after the
\* opening brace and white space) to the closing brace.
RECURSIVE ParseMembers(_, _, _)
ParseMembers(s, i, pt) ==
  LET bad == [ok |-> FALSE, pos |-> i, pt |-> pt] IN
  IF i > Len(s) \/ s[i] # QUOTE THEN bad
  ELSE LET e == StringEnd(s, i + 1) IN
       IF e = 0 THEN bad
       ELSE LET name == SubSeq(s, i + 1, e - 1)
                c == SkipWS(s, e + 1)
            IN  IF c > Len(s) \/ s[c] # ":" THEN bad
                ELSE LET v == ScalarAt(s, SkipWS(s, c + 1)) IN
                     IF ~v.ok THEN bad
                     ELSE LET m == SetMember(pt, name, v)
                              n == SkipWS(s, v.pos)
                          IN  IF ~m.ok \/ n > Len(s) THEN bad
                              ELSE IF s[n] = "}" THEN [ok |-> TRUE, pos |-> n + 1, pt |-> m.pt]
                              ELSE IF s[n] = ","
                                   THEN Bind(<<SkipWS(s, n + 1), m.pt>>,
                                             LAMBDA a : ParseMembers(s, a[1], a[2]))
                              ELSE bad

\* An array element at i: an object.
ObjectAt(s, i) ==
  IF i > Len(s) \/ s[i] # "{" THEN [ok |-> FALSE, pos |-> i, pt |-> ZeroPoint]
  ELSE LET j == SkipWS(s, i + 1) IN
       IF j <= Len(s) /\ s[j] = "}" THEN [ok |-> TRUE, pos |-> j + 1, pt |-> ZeroPoint]
       ELSE Bind(j, LAMBDA a : ParseMembers(s, a, ZeroPoint))

\* The elements of an array, from the first element at i to the closing
\* bracket.
RECURSIVE ParseElements(_, _, _)
ParseElements(s, i, acc) ==
  LET bad == [ok |-> FALSE, pos |-> i, points |-> <<>>]
      o == ObjectAt(s, i)
  IN  IF ~o.ok THEN bad
      ELSE LET n == SkipWS(s, o.pos) IN
           IF n > Len(s) THEN bad
           ELSE IF s[n] = "]" THEN [ok |-> TRUE, pos |-> n + 1, points |-> Append(acc, o.pt)]
           ELSE IF s[n] = ","
                THEN Bind(<<SkipWS(s, n + 1), Append(acc, o.pt)>>,
                          LAMBDA a : ParseElements(s, a[1], a[2]))
           ELSE bad

\* json.Unmarshal into []RenderPoint: [ok, points]; ok = FALSE is a non-nil
\* error (a syntax error or a type error).
Unmarshal(s) ==
  LET bad == [ok |-> FALSE, points |-> <<>>]
      i == SkipWS(s, 1)
  IN  IF i > Len(s) \/ s[i] # "[" THEN bad
      ELSE LET j == SkipWS(s, i + 1)
               r == IF j <= Len(s) /\ s[j] = "]"
                    THEN [ok |-> TRUE, pos |-> j + 1, points |-> <<>>]
                    ELSE Bind(j, LAMBDA a : ParseElements(s, a, <<>>))
           IN  IF r.ok /\ SkipWS(s, r.pos) > Len(s)
               THEN [ok |-> TRUE, points |-> r.points]
               ELSE bad

(***************************************************************************)
(* fmt.Sscanf(key, "%v", new(float64)): skip leading blanks, read the       *)
(* longest float token, convert it with strconv.ParseFloat.  Input after    *)
(* the token is left unread and is no error.  (The nan, inf and hexadecimal *)
(* forms need letters that the keys of the model do not have.)              *)
(***************************************************************************)
Sign == {"+", "-"}

\* ss.SkipSpace for Sscanf: the first position that is no blank; 0 for the
\* "unexpected newline" error.
RECURSIVE SkipBlanks(_, _)
SkipBlanks(s, i) ==
  IF i > Len(s) THEN i
  ELSE IF s[i] = NL THEN 0
  ELSE IF s[i] \in {SP, "\t"} THEN SkipBlanks(s, i + 1)
  ELSE i

\* ss.floatToken: the position after the token that starts at i.
FloatTokenEnd(s, i) ==
  LET a == IF i <= Len(s) /\ s[i] \in Sign THEN i + 1 ELSE i
      b == DigitRunEnd(s, a)
      c == IF b <= Len(s) /\ s[b] = "." THEN DigitRunEnd(s, b + 1) ELSE b
  IN  IF c <= Len(s) /\ s[c] \in {"e", "E", "p", "P"}
      THEN LET f == IF c + 1 <= Len(s) /\ s[c + 1] \in Sign THEN c + 2 ELSE c + 1
           IN  DigitRunEnd(s, f)
      ELSE c

\* strconv.ParseFloat(tok, 64) returns no error: the whole of tok is a
\* decimal floating-point literal.
ParseFloatOK(tok) ==
  LET a == IF 1 <= Len(tok) /\ tok[1] \in Sign THEN 2 ELSE 1
      b == DigitRunEnd(tok, a)
      dot == b <= Len(tok) /\ tok[b] = "."
      c == IF dot THEN DigitRunEnd(tok, b + 1) ELSE b
      mant == (b - a) + (IF dot THEN c - b - 1 ELSE 0)
  IN  /\ mant >= 1
      /\ IF c > Len(tok) THEN TRUE
         ELSE /\ tok[c] \in {"e", "E"}
              /\ LET f == IF c + 1 <= Len(tok) /\ tok[c + 1] \in Sign THEN c + 2 ELSE c + 1
                     g == DigitRunEnd(tok, f)
                 IN  g > f /\ g > Len(tok)

\* Sscanf returned a nil error.
SscanfFloat(key) ==
  LET i == SkipBlanks(key, 1) IN
  /\ i # 0
  /\ ParseFloatOK(SubSeq(key, i, FloatTokenEnd(key, i) - 1))

(***************************************************************************)
(* ParseChartData                                                           *)
(***************************************************************************)
\* RenderChartData{}: the zero value.
ZeroChartData ==
  [Type |-> <<>>, Height |-> <<>>, Label |-> <<>>, Title |-> <<>>,
   Points |-> <<>>, KeysNumeric |-> FALSE, Color |-> <<>>]

\* The locals of ParseChartData before the first line is scanned.
ScanStart ==
  [chart_type |-> <<>>, chart_height |-> <<>>, chart_label |-> <<>>,
   chart_title |-> <<>>, chart_color |-> <<>>,
   data_lines |-> <<>>, in_data |-> FALSE]

\* TrimSpace(TrimPrefix(line, prefix))
FieldValue(line, prefix) == TrimSpace(TrimPrefix(line, prefix))

\* One iteration of the loop over the lines: the switch on the trimmed line.
ScanLine(st, raw) ==
  LET line == TrimSpace(raw) IN
  IF HasPrefix(line, <<"layout", ":">>)
  THEN [st EXCEPT !.chart_type = FieldValue(line, <<"layout", ":">>)]
  ELSE IF HasPrefix(line, <<"height", ":">>)
  THEN [st EXCEPT !.chart_height = FieldValue(line, <<"height", ":">>)]
  ELSE IF HasPrefix(line, <<"label", ":">>)
  THEN [st EXCEPT !.chart_label = FieldValue(line, <<"label", ":">>)]
  ELSE IF HasPrefix(line, <<"title", ":">>)
  THEN [st EXCEPT !.chart_title = FieldValue(line, <<"title", ":">>)]
  ELSE IF HasPrefix(line, <<"color", ":">>)
  THEN [st EXCEPT !.chart_color = FieldValue(line, <<"color", ":">>)]
  ELSE IF HasPrefix(line, <<"data", ":">>)
  THEN LET i == Index(line, "[") IN
       [st EXCEPT !.in_data = TRUE,
                  !.data_lines = IF i # 0
                                 THEN Append(@, SubSeq(line, i, Len(line)))
                                 ELSE @]
  ELSE IF st.in_data
  THEN [st EXCEPT !.data_lines = Append(@, line)]
  ELSE st

\* The lines ParseChartData loops over.
InputLines(input) == Split(TrimSpace(input), NL)

RECURSIVE ScanLines(_, _)
ScanLines(st, ls) ==
  IF ls = <<>> THEN st
  ELSE Bind(<<ScanLine(st, Head(ls)), Tail(ls)>>, LAMBDA a : ScanLines(a[1], a[2]))

\* "Join and normalize to valid JSON" and "Replace loose keys and quotes".
Bracketed(t) ==
  LET a == IF ~HasPrefix(t, <<"[">>) THEN <<"[">> \o t ELSE t
  IN  IF ~HasSuffix(a, <<"]">>) THEN a \o <<"]">> ELSE a

NormalizeData(data_lines) ==
  Bind(Join(data_lines, NL), LAMBDA j :
  Bind(TrimSpace(TrimSuffix(j, <<"]">>)), LAMBDA t :
  Bind(Bracketed(t), LAMBDA b :
  Bind(ReplaceAll(b, <<"key", ":">>, <<QUOTE, "key", QUOTE, ":">>), LAMBDA r1 :
  Bind(ReplaceAll(r1, <<"value", ":">>, <<QUOTE, "value", QUOTE, ":">>), LAMBDA r2 :
  Bind(ReplaceAll(r2, <<"'">>, <<QUOTE>>), LAMBDA r3 :
  Bind(ReplaceAll(r3, <<",", SP, "}">>, <<"}">>), LAMBDA r4 :
       ReplaceAll(r4, <<",", "]">>, <<"]">>))))))))

\* The loop over the points: false at the first string key that Sscanf
\* rejects.
KeysNumericOf(points) ==
  \A i \in 1..Len(points) :
     points[i].keyKind = "string" => SscanfFloat(points[i].key)

\* ParseChartData from "Join and normalize to valid JSON" on.
ParsePoints(st) ==
  Bind(NormalizeData(st.data_lines), LAMBDA data_str :
  Bind(Unmarshal(data_str), LAMBDA u :
       IF ~u.ok
       THEN [err |-> "failed to parse chart data", data |-> ZeroChartData]
       ELSE [err |-> "",
             data |-> [Type |-> st.chart_type, Height |-> st.chart_height,
                       Label |-> st.chart_label, Title |-> st.chart_title,
                       Points |-> u.points,
                       KeysNumeric |-> KeysNumericOf(u.points),
                       Color |-> st.chart_color]]))

\* FinishParse with the two checks after the loop in the other order.
FinishParseDataFirst(st) ==
  IF Len(st.data_lines) = 0
  THEN [err |-> "data not found", data |-> ZeroChartData]
  ELSE IF st.chart_type = <<>>
  THEN [err |-> "layout not found", data |-> ZeroChartData]
  ELSE ParsePoints(st)

\* ParseChartData after the loop over the lines, from the locals st.
FinishParse(st) ==
  IF st.chart_type = <<>>
  THEN [err |-> "layout not found", data |-> ZeroChartData]
  ELSE IF Len(st.data_lines) = 0
  THEN [err |-> "data not found", data |-> ZeroChartData]
  ELSE ParsePoints(st)

ParseChartData(input) ==
  Bind(InputLines(input), LAMBDA lines :
  Bind(ScanLines(ScanStart, lines), LAMBDA st : FinishParse(st)))

(***************************************************************************)
(* State.                                                                   *)
(*   input, idx, scan, pc, result : one call of ParseChartData, the loop    *)
(*        over the lines taken one iteration at a time;                     *)
(*   alt, altResult : a second text and the result of parsing it;           *)
(*   cd, script : the argument and the result of one call of BuildChartJS;  *)
(*   doc, pos, sink, rets, walkErr : the ChartBlocks of a document (their   *)
(*        source texts, in document order), the renderer's position among   *)
(*        them, the writes to the output, what each call of Render          *)
(*        returned, and the error the walk ended with;                      *)
(*   orig, tree, transformed : the document tree given to Transform, the    *)
(*        tree now, and whether Transform has run.                          *)
(***************************************************************************)
VARIABLES input, idx, scan, pc, result, alt, altResult,
          cd, script, doc, pos, sink, rets, walkErr, orig, tree, transformed

parseVars == <<input, idx, scan, pc, result>>
altVars == <<alt, altResult>>
jsVars == <<cd, script>>
renderVars == <<doc, pos, sink, rets, walkErr>>
treeVars == <<orig, tree, transformed>>
vars == <<input, idx, scan, pc, result, alt, altResult,
          cd, script, doc, pos, sink, rets, walkErr, orig, tree, transformed>>

None == [err |-> "pending", data |-> ZeroChartData]

(***************************************************************************)
(* The texts ParseChartData is run on.                                      *)
(***************************************************************************)
\* Sequences over S of length 0..n.
SeqUpTo(S, n) == UNION {[1..k -> S] : k \in 0..n}

PointText(keyLit) ==
  <<"{", SP, "key", ":", SP>> \o keyLit \o <<",", SP, "value", ":", SP, "5", SP, "}">>

BaseLines ==
  { <<"layout", ":", SP, "bar">>,
    <<"layout", ":">>,
    <<SP, SP, "layout", ":", SP, "pie">>,
    <<"height", ":", SP, "400px">>,
    <<"label", ":", SP, "Ants">>,
    <<"title", ":", SP, "Seen">>,
    <<"color", ":", SP, "red">>,
    <<"data", ":", SP, "[">>,
    <<"data", ":", SP, "[", "]">>,
    <<"data", ":", SP, "[">> \o PointText(<<"1">>) \o <<"]">>,
    <<"data", ":">>,
    <<SP, SP>> \o PointText(<<"2">>) \o <<",">>,
    <<"]">> }

\* One to MaxLines lines of BaseLines, each ended by a line break.
LineInputs ==
  { Join(ls, NL) \o <<NL>> : ls \in SeqUpTo(BaseLines, MaxLines) \ {<<>>} }

KeyChars == {"3", ".", "a", "e"}

\* The key of a point as written in the block: a quoted string of at most
\* MaxKeyLen characters, or a number.
KeyLits ==
  { <<"'">> \o k \o <<"'">> : k \in SeqUpTo(KeyChars, MaxKeyLen) }
    \cup { <<"1">>, <<"3", ".", "5">> }

\* A layout line and a data block of one or two points.
KeyInputs ==
  { <<"layout", ":", SP, "line", NL, "data", ":", SP, "[", NL>>
      \o PointText(k1) \o <<",", NL>> \o rest \o <<"]">> :
    k1 \in KeyLits,
    rest \in {<<>>} \cup { PointText(k2) \o <<NL>> : k2 \in KeyLits } }

ParseInputs == LineInputs \cup KeyInputs

(***************************************************************************)
(* ParseChartData, one loop iteration per step.                             *)
(***************************************************************************)
ScanStep ==
  /\ pc = "scan"
  /\ idx <= Len(InputLines(input))
  /\ scan' = ScanLine(scan, InputLines(input)[idx])
  /\ idx' = idx + 1
  /\ UNCHANGED <<input, pc, result>>
  /\ UNCHANGED <<altVars, jsVars, renderVars, treeVars>>

Finish ==
  /\ pc = "scan"
  /\ idx > Len(InputLines(input))
  /\ result' = FinishParse(scan)
  /\ pc' = "done"
  /\ UNCHANGED <<input, idx, scan>>
  /\ UNCHANGED <<altVars, jsVars, renderVars, treeVars>>

(***************************************************************************)
(* BuildChartJS.  The fixed text of the format strings is kept as whole     *)
(* symbols; what is substituted into it is kept character by character.     *)
(***************************************************************************)
\* json.Marshal of a string: HTML-safe escaping inside double quotes.
JSONEscapeChar(c) ==
  CASE c = QUOTE -> <<BACKSLASH, QUOTE>>
    [] c = BACKSLASH -> <<BACKSLASH, BACKSLASH>>
    [] c = NL -> <<BACKSLASH, "n">>
    [] c = "\t" -> <<BACKSLASH, "t">>
    [] c = "<" -> <<BACKSLASH, "u003c">>
    [] c = ">" -> <<BACKSLASH, "u003e">>
    [] c = "&" -> <<BACKSLASH, "u0026">>
    [] OTHER -> <<c>>

JSONString(str) ==
  <<QUOTE>> \o Flatten([i \in 1..Len(str) |-> JSONEscapeChar(str[i])]) \o <<QUOTE>>

\* The verb %q of fmt (strconv.Quote): a Go string literal.
GoQuoteChar(c) ==
  CASE c = QUOTE -> <<BACKSLASH, QUOTE>>
    [] c = BACKSLASH -> <<BACKSLASH, BACKSLASH>>
    [] c = NL -> <<BACKSLASH, "n">>
    [] c = "\t" -> <<BACKSLASH, "t">>
    [] OTHER -> <<c>>

GoQuote(str) ==
  <<QUOTE>> \o Flatten([i \in 1..Len(str) |-> GoQuoteChar(str[i])]) \o <<QUOTE>>

\* json.Marshal of a float64 that was read from the literal lit: a fraction
\* of zeros only is not written.
RECURSIVE TrimZeros(_)
TrimZeros(s) ==
  IF s # <<>> /\ s[Len(s)] = "0" THEN TrimZeros(SubSeq(s, 1, Len(s) - 1)) ELSE s

JSONFloat(lit) ==
  LET d == Index(lit, ".") IN
  IF d = 0 THEN lit
  ELSE LET t == TrimZeros(lit) IN
       IF t[Len(t)] = "." THEN SubSeq(t, 1, Len(t) - 1) ELSE t

\* json.Marshal of a point's key (an interface{}).
JSONKey(p) ==
  CASE p.keyKind = "string" -> JSONString(p.key)
    [] p.keyKind = "number" -> JSONFloat(p.key)
    [] OTHER -> <<"null">>

\* json.Marshal of a slice whose elements are already marshalled.
JSONArray(elems) ==
  <<"[">> \o Flatten([i \in 1..Len(elems) |->
                        IF i = 1 THEN elems[i] ELSE <<",">> \o elems[i]])
          \o <<"]">>

\* "Normalize type"
NormalType(type) ==
  LET t == ToLower(TrimSpace(type)) IN
  IF t \in {<<"bar">>, <<"line">>, <<"pie">>} THEN t ELSE <<"bar">>

ScriptOpen == "<script defer> (function () { const ctx = document.getElementById("
ScriptClose == <<"<", "/", "script", ">">>
GridColor == "grid: { color: \"rgba(255,255,255,0.1)\" }"

BuildChartJS(div_id, c) ==
  LET t == NormalType(c.Type)
      labelsJSON == JSONArray([i \in 1..Len(c.Points) |-> JSONKey(c.Points[i])])
      valuesJSON == JSONArray([i \in 1..Len(c.Points) |-> JSONFloat(c.Points[i].value)])
      uiColor == IF TrimSpace(c.Color) = <<>> THEN <<"#dddddd">> ELSE c.Color
      uiColorJSON == JSONString(uiColor)
      titleText == IF TrimSpace(c.Title) = <<>> THEN c.Label ELSE c.Title
      titleJSON == JSONString(titleText)
      titleDisplay == IF TrimSpace(titleText) # <<>> THEN <<"true">> ELSE <<"false">>
      dataset == <<"{ label: ">> \o GoQuote(c.Label) \o <<", data: ">> \o valuesJSON
                   \o <<", borderWidth: 1 }">>
      plugins == <<"plugins: { legend: { labels: { color: ">> \o uiColorJSON
                   \o <<" } }, title: { display: ">> \o titleDisplay
                   \o <<", text: ">> \o titleJSON \o <<", color: ">> \o uiColorJSON
                   \o <<" } }">>
      options ==
        IF t = <<"pie">>
        THEN <<"{ responsive: true, maintainAspectRatio: false, ">> \o plugins \o <<" }">>
        ELSE <<"{ responsive: true, maintainAspectRatio: false, ">> \o plugins
               \o <<", scales: { x: { ticks: { color: ">> \o uiColorJSON
               \o <<" }, ", GridColor, " }, y: { ticks: { color: ">> \o uiColorJSON
               \o <<" }, ", GridColor, " } } }">>
  IN  <<ScriptOpen, QUOTE>> \o div_id \o <<QUOTE, ").getContext(\"2d\"); const labels = ">>
        \o labelsJSON \o <<"; const data = { labels, datasets: [">> \o dataset
        \o <<"] }; const config = { type: ">> \o GoQuote(t) \o <<", data, options: ">>
        \o options \o <<" }; new Chart(ctx, config); })(); ">> \o ScriptClose

(***************************************************************************)
(* HTMLRenderer.Render                                                      *)
(***************************************************************************)
\* hex.EncodeToString of the SHA-256 digest of b: one symbol per text, the
\* same for equal texts and (no collisions) different for different texts.
Sha256Hex(b) == <<"sha256:" \o ToString(b)>>

DivOpen == "<div style=\"position:relative;width:100%;height:"
CanvasOpen == "\"><canvas id=\""
DivClose == "\"></canvas></div>"

Container(height, div_id) == <<DivOpen>> \o height \o <<CanvasOpen>> \o div_id \o <<DivClose>>

\* Render with the container written before the text is parsed.
RenderContainerFirst(input_b, entering) ==
  IF ~entering THEN [wrote |-> FALSE, bytes |-> <<>>, err |-> ""]
  ELSE IF Len(input_b) = 0 THEN [wrote |-> FALSE, bytes |-> <<>>, err |-> ""]
  ELSE Bind(<<Sha256Hex(input_b), ParseChartData(input_b)>>, LAMBDA a :
         LET div_id == a[1]
             r == a[2]
         IN  IF r.err # ""
             THEN [wrote |-> TRUE, bytes |-> Container(<<>>, div_id), err |-> r.err]
             ELSE [wrote |-> TRUE,
                   bytes |-> Container(r.data.Height, div_id)
                               \o BuildChartJS(div_id, r.data),
                   err |-> ""])

\* One call of Render on a ChartBlock whose lines hold the text input_b:
\* whether w.Write was called, with which bytes, and the error returned
\* (the WalkStatus returned is always WalkContinue).
Render(input_b, entering) ==
  IF ~entering THEN [wrote |-> FALSE, bytes |-> <<>>, err |-> ""]
  ELSE IF Len(input_b) = 0 THEN [wrote |-> FALSE, bytes |-> <<>>, err |-> ""]
  ELSE Bind(<<Sha256Hex(input_b), ParseChartData(input_b)>>, LAMBDA a :
         LET div_id == a[1]
             chart_data == a[2]
         IN  IF chart_data.err # ""
             THEN [wrote |-> FALSE, bytes |-> <<>>, err |-> chart_data.err]
             ELSE [wrote |-> TRUE,
                   bytes |-> Container(chart_data.data.Height, div_id)
                               \o BuildChartJS(div_id, chart_data.data),
                   err |-> ""])

\* The source texts of the ChartBlocks of the documents that are rendered.
GoodBar ==
  <<"layout", ":", SP, "bar", NL, "height", ":", SP, "400px", NL,
    "data", ":", SP, "[">> \o PointText(<<"1">>) \o <<"]", NL>>
GoodPie ==
  <<"layout", ":", SP, "pie", NL, "title", ":", SP, "Seen", NL,
    "data", ":", SP, "[", NL>> \o PointText(<<"'", "a", "'">>) \o <<NL, "]", NL>>
NoLayout == <<"data", ":", SP, "[">> \o PointText(<<"1">>) \o <<"]", NL>>
BadData == <<"layout", ":", SP, "bar", NL, "data", ":", SP, "[", "{", "key", SP, "1", "}", "]", NL>>

BlockTexts == {<<>>, GoodBar, GoodPie, NoLayout, BadData}

Documents == SeqUpTo(BlockTexts, MaxBlocks) \ {<<>>}

\* The renderer's walk over the document calls the function registered for
\* KindChartBlock (RegisterFuncs) on every ChartBlock, entering and then
\* leaving.  The walk (ast.Walk) goes on while the function returns a nil
\* error and ends with the error as soon as it returns one.
RenderNode ==
  /\ walkErr = ""
  /\ pos.i <= Len(doc)
  /\ \E r \in {Render(doc[pos.i], pos.entering)} :
       /\ sink' = IF r.wrote THEN Append(sink, [node |-> pos.i, bytes |-> r.bytes])
                  ELSE sink
       /\ rets' = Append(rets, [node |-> pos.i, entering |-> pos.entering, err |-> r.err])
       /\ walkErr' = r.err
       /\ pos' = IF r.err # "" THEN pos
                 ELSE IF pos.entering THEN [pos EXCEPT !.entering = FALSE]
                 ELSE [i |-> pos.i + 1, entering |-> TRUE]
  /\ UNCHANGED doc
  /\ UNCHANGED <<parseVars, altVars, jsVars, treeVars>>

(***************************************************************************)
(* Transformer.Transform.  A tree is the sequence of its nodes; a node is   *)
(* named by its index, node 1 is the ast.Document, 0 is the nil node.       *)
(***************************************************************************)
VIS_LANG == <<"v", "i", "s">>

\* The comparison of the tag without regard to case (bytes.EqualFold).
IsVisLangFold(lang) == ToLower(lang) = VIS_LANG

\* cb.Language(source) equals VIS_LANG (bytes.Equal).
IsVisLang(lang) == lang = VIS_LANG

RECURSIVE WalkFrom(_, _)
RECURSIVE WalkList(_, _)
\* The nodes in the order ast.Walk enters them, from node n.
WalkFrom(t, n) == <<n>> \o WalkList(t, t[n].children)
WalkList(t, cs) ==
  IF cs = <<>> THEN <<>> ELSE WalkFrom(t, Head(cs)) \o WalkList(t, Tail(cs))

\* "Collect all chart blocks"
CollectBlocks(t) ==
  SelectSeq(WalkFrom(t, 1),
            LAMBDA n : t[n].kind = "FencedCodeBlock" /\ IsVisLang(t[n].lang))

\* parent.ReplaceChild(parent, v1, insertee): insertee takes the place of v1
\* among the children of parent, and v1 is detached.
ReplaceChild(t, parent, v1, insertee) ==
  [t EXCEPT ![parent].children =
              [k \in 1..Len(@) |-> IF @[k] = v1 THEN insertee ELSE @[k]],
            ![insertee].parent = parent,
            ![v1].parent = 0]

\* The body of the loop "Modify those blocks in place" for the block cb.
ReplaceBlock(t, cb) ==
  LET b == Len(t) + 1
      withB == Append(t, [kind |-> "ChartBlock", lang |-> <<>>,
                          lines |-> t[cb].lines, parent |-> 0,
                          children |-> <<>>])
      parent == t[cb].parent
  IN  IF parent # 0 THEN ReplaceChild(withB, parent, cb, b) ELSE withB

RECURSIVE ReplaceBlocks(_, _)
ReplaceBlocks(t, blocks) ==
  IF blocks = <<>> THEN t
  ELSE Bind(<<ReplaceBlock(t, Head(blocks)), Tail(blocks)>>,
            LAMBDA a : ReplaceBlocks(a[1], a[2]))

TransformTree(t) ==
  Bind(CollectBlocks(t), LAMBDA blocks :
       IF Len(blocks) = 0 THEN t ELSE ReplaceBlocks(t, blocks))

\* What a leaf block of a document can be: a paragraph, or a fenced code
\* block with one of the info strings vis, Vis, vis2 or none.
LeafChoices ==
  { [kind |-> "Paragraph", lang |-> <<>>],
    [kind |-> "FencedCodeBlock", lang |-> VIS_LANG],
    [kind |-> "FencedCodeBlock", lang |-> <<"V", "i", "s">>],
    [kind |-> "FencedCodeBlock", lang |-> <<"v", "i", "s", "2">>],
    [kind |-> "FencedCodeBlock", lang |-> <<>>] }

\* The document with a block quote (node 2) as its first child and the
\* leaves 3.. in order, leaf l under node where[l], being what[l].
TreeOf(what, where) ==
  LET n == Len(what)
      under(p) == SelectSeq([l \in 1..n |-> l + 2], LAMBDA id : where[id - 2] = p)
  IN  [id \in 1..(n + 2) |->
         IF id = 1
         THEN [kind |-> "Document", lang |-> <<>>, lines |-> <<>>,
               parent |-> 0, children |-> <<2>> \o under(1)]
         ELSE IF id = 2
         THEN [kind |-> "Blockquote", lang |-> <<>>, lines |-> <<>>,
               parent |-> 1, children |-> under(2)]
         ELSE [kind |-> what[id - 2].kind, lang |-> what[id - 2].lang,
               lines |-> <<[Start |-> 10 * id, Stop |-> 10 * id + 5]>>,
               parent |-> where[id - 2], children |-> <<>>]]

Trees ==
  { TreeOf(what, where) :
      what \in [1..MaxLeaves -> LeafChoices], where \in [1..MaxLeaves -> {1, 2}] }

Transform ==
  /\ ~transformed
  /\ tree' = TransformTree(tree)
  /\ transformed' = TRUE
  /\ UNCHANGED orig
  /\ UNCHANGED <<parseVars, altVars, jsVars, renderVars>>

(***************************************************************************)
(* Two texts that differ only in the white space of the data section.       *)
(***************************************************************************)
Spaces(n) == [i \in 1..n |-> SP]

\* The ways the same data is laid out: blanks before the colon of a member
\* name, blanks before a closing brace, blanks before the closing bracket,
\* and entries on lines of their own (indented) or on the data: line.
Styles ==
  [colon : 0..MaxSpaces, brace : 0..MaxSpaces, bracket : 0..MaxSpaces,
   multiline : BOOLEAN]

\* What is laid out: one or two points, with or without trailing commas.
DataShapes == [n : 1..2, trailing : BOOLEAN]

ObjectText(keyLit, val, shape, st) ==
  <<"{", SP, "key">> \o Spaces(st.colon) \o <<":", SP>> \o keyLit
    \o <<",", SP, "value">> \o Spaces(st.colon) \o <<":", SP, val>>
    \o (IF shape.trailing THEN <<",">> ELSE <<>>) \o Spaces(st.brace) \o <<"}">>

BlockText(shape, st) ==
  LET brk == IF st.multiline THEN <<NL, SP, SP>> ELSE <<>>
      sep == IF st.multiline THEN <<",", NL, SP, SP>> ELSE <<",", SP>>
  IN  <<"layout", ":", SP, "bar", NL, "data", ":", SP, "[">> \o brk
        \o ObjectText(<<"1">>, "5", shape, st)
        \o (IF shape.n = 2
            THEN sep \o ObjectText(<<"'", "a", "'">>, "3", shape, st) ELSE <<>>)
        \o (IF shape.trailing THEN <<",">> ELSE <<>>) \o Spaces(st.bracket)
        \o (IF st.multiline THEN <<NL>> ELSE <<>>) \o <<"]", NL>>

ParseInput ==
  /\ pc = "pair"
  /\ result = None
  /\ \E r \in {ParseChartData(input)} : result' = r
  /\ UNCHANGED <<input, idx, scan, pc>>
  /\ UNCHANGED <<altVars, jsVars, renderVars, treeVars>>

ParseAlt ==
  /\ pc = "pair"
  /\ altResult = None
  /\ \E r \in {ParseChartData(alt)} : altResult' = r
  /\ UNCHANGED alt
  /\ UNCHANGED <<parseVars, jsVars, renderVars, treeVars>>

(***************************************************************************)
(* One call of BuildChartJS.                                                *)
(***************************************************************************)
JSChars == {"a", QUOTE, BACKSLASH, NL, "<", SP}

\* Label, title and color texts.
JSStrings ==
  SeqUpTo(JSChars, MaxStrLen) \cup {ScriptClose, <<"a", QUOTE, "b">>}

ChartDatas ==
  { [Type |-> ty, Height |-> <<"400px">>, Label |-> l, Title |-> t,
     Points |-> <<[keyKind |-> "string", key |-> <<"a", "<">>, value |-> <<"5">>],
                  [keyKind |-> "number", key |-> <<"2">>, value |-> <<"3", ".", "0">>]>>,
     KeysNumeric |-> FALSE, Color |-> c] :
    ty \in {<<"bar">>, <<"Pie">>, <<"scatter">>},
    l \in JSStrings, t \in JSStrings, c \in JSStrings }

DivIdSample == Sha256Hex(GoodBar)

BuildJS ==
  /\ pc = "js"
  /\ script = <<>>
  /\ script' = BuildChartJS(DivIdSample, cd)
  /\ UNCHANGED cd
  /\ UNCHANGED <<parseVars, altVars, renderVars, treeVars>>

(***************************************************************************)
(* Specifications.                                                          *)
(***************************************************************************)
IdleParse == input = <<>> /\ idx = 1 /\ scan = ScanStart /\ result = None
IdleAlt == alt = <<>> /\ altResult = None
IdleJS == cd = ZeroChartData /\ script = <<>>
IdleRender ==
  /\ doc = <<>> /\ pos = [i |-> 1, entering |-> TRUE]
  /\ sink = <<>> /\ rets = <<>> /\ walkErr = ""
IdleTree == orig = <<>> /\ tree = <<>> /\ transformed = TRUE

\* ParseChartData on one text.
InitParse ==
  /\ input \in ParseInputs
  /\ idx = 1 /\ scan = ScanStart /\ pc = "scan" /\ result = None
  /\ IdleAlt /\ IdleJS /\ IdleRender /\ IdleTree

NextParse == ScanStep \/ Finish

SpecParse == InitParse /\ [][NextParse]_vars

\* ParseChartData on two layouts of the same data.
InitPair ==
  /\ \E shape \in DataShapes, a \in Styles, b \in Styles :
        input = BlockText(shape, a) /\ alt = BlockText(shape, b)
  /\ idx = 1 /\ scan = ScanStart /\ pc = "pair" /\ result = None
  /\ altResult = None
  /\ IdleJS /\ IdleRender /\ IdleTree

NextPair == ParseInput \/ ParseAlt

SpecPair == InitPair /\ [][NextPair]_vars

\* BuildChartJS on one chart description.
InitJS ==
  /\ cd \in ChartDatas /\ script = <<>>
  /\ pc = "js" /\ IdleParse /\ IdleAlt /\ IdleRender /\ IdleTree

NextJS == BuildJS

SpecJS == InitJS /\ [][NextJS]_vars

\* The rendering of the ChartBlocks of one document.
InitRender ==
  /\ doc \in Documents
  /\ pos = [i |-> 1, entering |-> TRUE]
  /\ sink = <<>> /\ rets = <<>> /\ walkErr = ""
  /\ pc = "render" /\ IdleParse /\ IdleAlt /\ IdleJS /\ IdleTree

NextRender == RenderNode

SpecRender == InitRender /\ [][NextRender]_vars

\* Transform on one document tree.
InitTree ==
  /\ orig \in Trees /\ tree = orig /\ transformed = FALSE
  /\ pc = "transform" /\ IdleParse /\ IdleAlt /\ IdleJS /\ IdleRender

NextTree == Transform

SpecTransform == InitTree /\ [][NextTree]_vars

\* All of them.
Init == InitParse \/ InitPair \/ InitJS \/ InitRender \/ InitTree

Next == ScanStep \/ Finish \/ ParseInput \/ ParseAlt \/ BuildJS \/ RenderNode \/ Transform

Spec == Init /\ [][Next]_vars

(***************************************************************************)
(* Properties of ParseChartData (SpecParse).                                *)
(***************************************************************************)
Parsed == pc = "done"

\* C1: whenever ParseChartData returns without error, the returned
\* description has a non-empty Type and a non-empty Points sequence (a data
\* block without points is a parse failure).
C1_SuccessHasTypeAndPoints ==
  (Parsed /\ result.err = "") =>
     (result.data.Type # <<>> /\ Len(result.data.Points) > 0)

\* The value of the last layout: line of a text, <<>> when it has none or
\* when that line has no value.
RECURSIVE LastLayoutValue(_)
LastLayoutValue(ls) ==
  IF ls = <<>> THEN <<>>
  ELSE LET line == TrimSpace(ls[Len(ls)]) IN
       IF HasPrefix(line, <<"layout", ":">>)
       THEN TrimSpace(SubSeq(line, 3, Len(line)))
       ELSE LastLayoutValue(SubSeq(ls, 1, Len(ls) - 1))

\* C3: after the scan, ParseChartData fails with "layout not found" whenever
\* the text gives no non-empty layout value, wherever its layout line stands
\* and whether or not it has data; otherwise it fails with "data not found"
\* whenever the data buffer is empty; in both cases no description is
\* returned.
C3_MissingFieldErrors ==
  Parsed =>
    IF LastLayoutValue(InputLines(input)) = <<>>
    THEN result = [err |-> "layout not found", data |-> ZeroChartData]
    ELSE (scan.data_lines = <<>> =>
            result = [err |-> "data not found", data |-> ZeroChartData])

\* A text with data lines but no layout value has been parsed.
C3_Witness ==
  /\ Parsed
  /\ result.err = "layout not found"
  /\ Len(scan.data_lines) > 0
  /\ \E i \in 1..Len(InputLines(input)) :
        HasPrefix(TrimSpace(InputLines(input)[i]), <<"layout", ":">>)

\* The whole of a key is a numeric literal.
IsNumericLiteral(key) == ParseFloatOK(key)

\* C4: for a successfully parsed text, KeysNumeric is true if and only if
\* every key that arrived as a string is, in its entirety, a numeric literal.
C4_KeysNumericIffFullLiterals ==
  (Parsed /\ result.err = "") =>
     (result.data.KeysNumeric <=>
        \A i \in 1..Len(result.data.Points) :
           result.data.Points[i].keyKind = "string"
              => IsNumericLiteral(result.data.Points[i].key))

\* C5: once a data: line has been seen, every further line is appended to
\* the data buffer and changes no scalar field.
C5_DataLinesExclusive ==
  [][(pc = "scan" /\ scan.in_data /\ idx' = idx + 1) =>
       /\ scan'.data_lines =
            Append(scan.data_lines, TrimSpace(InputLines(input)[idx]))
       /\ scan'.chart_type = scan.chart_type
       /\ scan'.chart_height = scan.chart_height
       /\ scan'.chart_label = scan.chart_label
       /\ scan'.chart_title = scan.chart_title
       /\ scan'.chart_color = scan.chart_color]_vars

(***************************************************************************)
(* Property of two layouts of the same data (SpecPair).                     *)
(***************************************************************************)
\* C9: two texts that differ only in the white space of the data section
\* parse with the same outcome and the same points in the same order.
C9_WhitespaceInsensitive ==
  (pc = "pair" /\ result # None /\ altResult # None) =>
     (result.err = altResult.err /\ result.data.Points = altResult.data.Points)

(***************************************************************************)
(* Property of BuildChartJS (SpecJS).                                       *)
(***************************************************************************)
\* The number of places of s where sub occurs.
CountOccur(s, sub) ==
  Cardinality({ k \in 1..(Len(s) - Len(sub) + 1) : SubSeq(s, k, k + Len(sub) - 1) = sub })

\* The character an escape sequence of a script string literal stands for.
Unescape(c) ==
  CASE c = "n" -> NL
    [] c = "t" -> "\t"
    [] c = "u003c" -> "<"
    [] c = "u003e" -> ">"
    [] c = "u0026" -> "&"
    [] OTHER -> c

\* The number of backslashes that stand immediately before position k.
BackslashesBefore(s, k) ==
  IF \A j \in 1..(k - 1) : s[j] = BACKSLASH THEN k - 1
  ELSE k - 1 - (CHOOSE j \in 1..(k - 1) :
                  s[j] # BACKSLASH /\ \A l \in (j + 1)..(k - 1) : s[l] = BACKSLASH)

\* Position k holds a backslash that starts an escape sequence.
StartsEscape(s, k) == s[k] = BACKSLASH /\ BackslashesBefore(s, k) % 2 = 0

\* Position k holds the character of an escape sequence.
Escaped(s, k) == BackslashesBefore(s, k) % 2 = 1

\* The positions of the double quotes that open or close a string literal.
QuotePositions(s) ==
  SelectSeq([k \in 1..Len(s) |-> k], LAMBDA k : s[k] = QUOTE /\ ~Escaped(s, k))

\* The value of the literal whose characters are at a..b; a line break in it
\* breaks the literal.
LiteralValue(s, a, b) ==
  IF \E k \in a..b : s[k] = NL THEN <<"BROKEN">>
  ELSE LET keep == SelectSeq([k \in 1..(b - a + 1) |-> a + k - 1],
                             LAMBDA k : ~StartsEscape(s, k))
       IN  [n \in 1..Len(keep) |->
              IF Escaped(s, keep[n]) THEN Unescape(s[keep[n]]) ELSE s[keep[n]]]

\* The values of the string literals of a script text, in order, as the
\* script's reader takes them: a literal runs from a double quote to the
\* next double quote that no backslash escapes.
Literals(s) ==
  Bind(QuotePositions(s), LAMBDA q :
       IF Len(q) % 2 = 1 THEN <<<<"BROKEN">>>>
       ELSE [m \in 1..(Len(q) \div 2) |->
               LiteralValue(s, q[2 * m - 1] + 1, q[2 * m] - 1)])

\* The strings a script for the description c is to hold, in order: the
\* identifier, the string keys, the dataset label, the chart type, and the
\* color and title texts of the options.
ExpectedLiterals(div_id, c) ==
  LET keys == SelectSeq(c.Points, LAMBDA p : p.keyKind = "string")
      color == IF TrimSpace(c.Color) = <<>> THEN <<"#dddddd">> ELSE c.Color
      title == IF TrimSpace(c.Title) = <<>> THEN c.Label ELSE c.Title
      type == NormalType(c.Type)
  IN  <<div_id>> \o [i \in 1..Len(keys) |-> keys[i].key]
        \o <<c.Label, type, color, title, color>>
        \o (IF type = <<"pie">> THEN <<>> ELSE <<color, color>>)

\* Every string literal of the script built for cd holds the text it was
\* built from.
LiteralsIntact ==
  script # <<>> => Literals(script) = ExpectedLiterals(DivIdSample, cd)

\* The script element is closed once, by the closing tag at its end.
ScriptClosedOnce ==
  script # <<>> => CountOccur(script, <<"<", "/", "script">>) = 1

\* C6: BuildChartJS embeds label, title and color as escaped string
\* literals: no character of them ends its string literal or closes the
\* script element.
C6_StringsCannotBreakOut == LiteralsIntact /\ ScriptClosedOnce

(***************************************************************************)
(* Properties of Render over a document (SpecRender).                       *)
(***************************************************************************)
\* The bytes written for the ChartBlock i, in the order of the writes.
RECURSIVE BytesOf(_, _)
BytesOf(writes, i) ==
  IF writes = <<>> THEN <<>>
  ELSE (IF Head(writes).node = i THEN Head(writes).bytes ELSE <<>>)
         \o BytesOf(Tail(writes), i)

\* The symbols that follow the occurrences of the symbol mark in w.
After(w, mark) == { w[k + 1] : k \in { j \in 1..(Len(w) - 1) : w[j] = mark } }

Count(w, c) == Cardinality({ k \in 1..Len(w) : w[k] = c })

\* w is one container element immediately followed by one script element
\* that looks the container's identifier up.
IsContainerThenScript(w) ==
  /\ Len(w) > 8
  /\ w[1] = DivOpen
  /\ Count(w, DivOpen) = 1 /\ Count(w, CanvasOpen) = 1
  /\ Count(w, DivClose) = 1 /\ Count(w, ScriptOpen) = 1
  /\ \E k \in 1..(Len(w) - 3) :
        /\ w[k] = DivClose /\ w[k + 1] = ScriptOpen /\ w[k + 2] = QUOTE
        /\ After(w, CanvasOpen) = {w[k + 3]}
  /\ SubSeq(w, Len(w) - 3, Len(w)) = ScriptClose

WalkOver == pc = "render" /\ (walkErr # "" \/ pos.i > Len(doc))

\* C7: the output for each block that parses is the same whether or not
\* other blocks of the document fail to parse: when the rendering of the
\* document is over, every such block has its markup in the output.
C7_FailuresBlockScoped ==
  WalkOver =>
    \A i \in 1..Len(doc) :
       (doc[i] # <<>> /\ ParseChartData(doc[i]).err = "")
          => IsContainerThenScript(BytesOf(sink, i))

\* C8: no two container elements written for one document carry the same
\* identifier.
C8_UniqueContainerIds ==
  \A m, n \in 1..Len(sink) :
     m # n => After(sink[m].bytes, CanvasOpen) \cap After(sink[n].bytes, CanvasOpen) = {}

(***************************************************************************)
(* Property of Transform (SpecTransform).                                   *)
(***************************************************************************)
\* The position of node n among the children cs (0 when it is not there).
PlaceIn(cs, n) == IF \E k \in 1..Len(cs) : cs[k] = n
                  THEN CHOOSE k \in 1..Len(cs) : cs[k] = n ELSE 0

IsVisBlock(t, n) == t[n].kind = "FencedCodeBlock" /\ t[n].lang = <<"v", "i", "s">>

\* C10: after Transform, every fenced code block tagged exactly vis has been
\* replaced, at its place among its parent's children, by a ChartBlock with
\* the same lines; no such block is left in the tree; every other node keeps
\* its identity, parent and place; and without such blocks the tree is
\* unchanged.
C10_TransformReplacesVisBlocks ==
  (pc = "transform" /\ transformed) =>
    /\ \A n \in 1..Len(orig) :
         IF IsVisBlock(orig, n)
         THEN LET p == orig[n].parent
                  m == tree[p].children[PlaceIn(orig[p].children, n)]
              IN  /\ m > Len(orig)
                  /\ tree[m].kind = "ChartBlock"
                  /\ tree[m].lines = orig[n].lines
                  /\ tree[m].parent = p
                  /\ tree[m].children = <<>>
         ELSE /\ tree[n].kind = orig[n].kind
              /\ tree[n].lang = orig[n].lang
              /\ tree[n].lines = orig[n].lines
              /\ tree[n].parent = orig[n].parent
              /\ Len(tree[n].children) = Len(orig[n].children)
              /\ \A k \in 1..Len(orig[n].children) :
                    ~IsVisBlock(orig, orig[n].children[k])
                       => tree[n].children[k] = orig[n].children[k]
    /\ \A k \in 1..Len(WalkFrom(tree, 1)) : ~IsVisBlock(tree, WalkFrom(tree, 1)[k])
    /\ (\A n \in 1..Len(orig) : ~IsVisBlock(orig, n)) => tree = orig

\* Transform has run on a tree with a vis block inside the block quote, a
\* vis block under the document, and a fenced block with another tag.
C10_Witness ==
  /\ pc = "transform" /\ transformed
  /\ \E a, b, c \in 1..Len(orig) :
        /\ IsVisBlock(orig, a) /\ orig[a].parent = 2
        /\ IsVisBlock(orig, b) /\ orig[b].parent = 1
        /\ orig[c].kind = "FencedCodeBlock" /\ orig[c].lang = <<"V", "i", "s">>
        /\ tree[c].parent = orig[c].parent

====
